---- MODULE Spec2Model ----
(***************************************************************************)
(* State-machine model of app/app_incremental.py: the two request-level    *)
(* operations transcribe_audio and transcribe_chunked_audio, the helpers   *)
(* inference / query / forward / chunked_query they call, and the          *)
(* multiprocessing Pool that transcribe_chunked_audio creates and maps     *)
(* forward over.                                                           *)
(*                                                                         *)
(* A request r runs from "idle" to "returned" (the function returned a     *)
(* value) or "raised" (an exception left the function).  Between the two   *)
(* it waits either for the single POST of inference ("query") or inside    *)
(* pool.map ("map").  The engine behind the two URLs is the environment:   *)
(* each POST is answered with status 200, answered with a non-200 status   *)
(* whose JSON body holds "detail", or fails in transport.                  *)
(***************************************************************************)
EXTENDS Integers, Sequences, FiniteSets, TLC

\* ---------------------------------------------------------------- bounds
\* requests of the concurrent specification PoolSpec
NumReqs == 2
\* the dataloader yields 4*NUM_PROC + 1 .. 4*NUM_PROC + MaxOver batches in LongSpec
MaxOver == 1
\* batches per request in PoolSpec
PoolBatches == 1
\* the dataloader yields 0 .. SmallBatches batches in Spec
SmallBatches == 3
\* failed engine calls per request
MaxFail == 1

\* ------------------------------------------------------ program constants
NUM_PROC == 4

None == "None"
Reqs == 1 .. NumReqs
MaxBatches == 4 * NUM_PROC + MaxOver
Batches == 1 .. MaxBatches

ERROR == <<"ERROR: no audio">>
WARNING == <<"WARNING: microphone used">>

VARIABLES
    pc,         \* pc[r]: "idle", "query", "map", "returned", "raised"
    req,        \* req[r]: the arguments of the request, and which function
    nbatch,     \* nbatch[r]: len(list(dataloader))
    pool,       \* pool[r]: "none", "live", "garbage", "terminated"
    nextTask,   \* nextTask[r]: tasks of the map already taken by workers
    status,     \* status[r][b]: "queued", "sent", "ok", "raised", "skipped"
                \* ("sent": a worker holds the task of b and has not finished it)
    ncalls,     \* ncalls[r][b]: POSTs to generate_from_features for batch b
    payload,    \* payload[r][b]: the json of the last such POST
    wbatch,     \* wbatch[r][b]: the batch object forward was called with
    chunksize,  \* chunksize[r]: MapResult._chunksize
    number_left,\* number_left[r]: MapResult._number_left
    value,      \* value[r]: MapResult._value, slot b holds a result or 0
    success,    \* success[r]: MapResult._success
    postIn,     \* postIn[r]: the list postprocess was called with
    postCalled, \* postCalled[r]: postprocess has been called
    infCalls,   \* infCalls[r]: POSTs to API_URL made by inference
    infPayload, \* infPayload[r]: the json of that POST
    infResp,    \* infResp[r]: how the engine answered it
    resp,       \* resp[r][b]: None, "ok" (200) or "failed" (non-200, transport)
    result      \* result[r]: what the function returned

vars == <<pc, req, nbatch, pool, nextTask, status, ncalls, payload, wbatch,
          chunksize, number_left, value, success, postIn, postCalled, infCalls, infPayload, infResp,
          resp, result>>

\* ------------------------------------------------------------ data values
NoReq == [fn |-> None, microphone |-> None, file_upload |-> None,
          task |-> None, return_timestamps |-> FALSE]
NoFeatures == [type |-> None, src |-> None, id |-> 0]
NoPayload == [input_features |-> NoFeatures, task |-> None,
              return_timestamps |-> FALSE]
NoInfPayload == [inputs |-> NoFeatures, task |-> None,
                 return_timestamps |-> FALSE]
NoResult == [shape |-> None, text |-> <<>>, timestamps |-> None]

\* a batch the dataloader yields: its input_features are an ndarray
Batch(src, b) == [input_features |-> [type |-> "ndarray", src |-> src, id |-> b]]
NoBatch == [input_features |-> NoFeatures]

\* base64.b64encode(x.tobytes()).decode(): a str holding the same content
b64encode(x) == [type |-> "str", src |-> x.src, id |-> x.id]

\* the JSON bodies the engine answers with
Json200(return_timestamps) ==
    [keys |-> {"text"} \cup (IF return_timestamps THEN {"chunks"} ELSE {})]
JsonError == [keys |-> {"detail"}]
Features200 == [keys |-> {"tokens"}]

\* ----------------------------------------------------- input resolution
\* inputs = microphone if microphone is not None else file_upload
SelectInputFile(microphone, file_upload) ==
    IF file_upload # None THEN file_upload ELSE microphone

SelectInput(microphone, file_upload) ==
    IF microphone # None THEN microphone ELSE file_upload

\* warn_output
WarnOutput(microphone, file_upload) ==
    IF microphone # None /\ file_upload # None THEN WARNING ELSE <<>>

NoAudio(microphone, file_upload) ==
    microphone = None /\ file_upload = None

\* ---------------------------------------------------------- pool.map
\* chunksize, extra = divmod(len(iterable), len(pool) * 4); +1 if extra
Chunksize(n) ==
    IF n = 0 THEN 0
    ELSE (n \div (NUM_PROC * 4)) + (IF n % (NUM_PROC * 4) # 0 THEN 1 ELSE 0)

\* MapResult._number_left at construction
NumTasks(n) ==
    IF Chunksize(n) = 0 THEN 0
    ELSE (n \div Chunksize(n)) + (IF n % Chunksize(n) # 0 THEN 1 ELSE 0)

\* Pool._get_tasks: task t holds the batches FirstOf .. LastOf
FirstOf(r, t) == (t - 1) * chunksize[r] + 1
LastOf(r, t) ==
    IF t * chunksize[r] < nbatch[r] THEN t * chunksize[r] ELSE nbatch[r]
TaskBatches(r, t) == FirstOf(r, t) .. LastOf(r, t)

\* a worker holds task t
TaskRunning(r, t) == t <= nextTask[r] /\ status[r][FirstOf(r, t)] = "sent"
Running(r) == {t \in 1 .. nextTask[r] : TaskRunning(r, t)}

\* ------------------------------------------------------------ inference
\* inference, lines 42-52, on the answer (data, status_code) of query
inference(data, status_code, return_timestamps) ==
    LET key == IF status_code = 200 THEN "text" ELSE "detail" IN
    IF key \notin data.keys \/ (return_timestamps /\ "chunks" \notin data.keys)
    THEN [raised |-> TRUE, text |-> <<>>, timestamps |-> None]
    ELSE [raised |-> FALSE, text |-> <<key>>,
          timestamps |-> IF return_timestamps THEN "chunks" ELSE None]

\* -------------------------------------------------------------- forward
\* line 62: batch["input_features"] = b64encode(...), on the object passed in
ForwardEncode(batch) ==
    [batch EXCEPT !.input_features = b64encode(@)]

ForwardPayloadDefaults(batch, task, return_timestamps) ==
    [input_features |-> batch.input_features, task |-> None,
     return_timestamps |-> FALSE]

\* lines 63-65: the json handed to chunked_query
ForwardPayload(batch, task, return_timestamps) ==
    [input_features |-> batch.input_features, task |-> task,
     return_timestamps |-> return_timestamps]

ForwardNeverRaises(outputs) == FALSE

\* line 66: outputs["tokens"] raises KeyError when the body has no tokens
ForwardRaises(outputs) == "tokens" \notin outputs.keys

\* ------------------------------------------------- MapResult and the pool
StoreResultArrival(val, r, t) ==
    LET free == {i \in 1 .. nbatch[r] : val[i] = 0}
        RECURSIVE Fill(_, _, _)
        Fill(v, bs, fr) ==
            IF bs = {} \/ fr = {} THEN v
            ELSE LET b == CHOOSE x \in bs : \A y \in bs : x <= y
                     i == CHOOSE x \in fr : \A y \in fr : x <= y
                 IN Fill([v EXCEPT ![i] = b], bs \ {b}, fr \ {i})
    IN Fill(val, TaskBatches(r, t), free)

\* MapResult._set: self._value[i*chunksize:(i+1)*chunksize] = result
StoreResult(val, r, t) ==
    [i \in Batches |->
       IF FirstOf(r, t) <= i /\ i <= LastOf(r, t) THEN i ELSE val[i]]

MapReadyQueueEmpty(r) == nextTask[r] = NumTasks(nbatch[r])

\* MapResult._event is set when _number_left reaches 0
MapReady(r) == number_left[r] = 0

CanTakeUntilFailure(r) ==
    /\ success[r]
    /\ nextTask[r] < NumTasks(nbatch[r])
    /\ Cardinality(Running(r)) < NUM_PROC

\* a worker of the NUM_PROC is idle and the task queue is not empty
CanTake(r) ==
    /\ nextTask[r] < NumTasks(nbatch[r])
    /\ Cardinality(Running(r)) < NUM_PROC

\* ---------------------------------------------------------- postprocess
\* processor.postprocess(model_outputs, return_timestamps)
postprocess(model_outputs, return_timestamps) ==
    [text |-> IF Len(model_outputs) = 0 THEN <<>> ELSE <<"transcript">>,
     chunks |-> IF return_timestamps THEN "chunks" ELSE None]

\* processor.preprocess_batch: a finite sequence of n batches of the input
preprocess_batch(inputs, n) == [b \in 1 .. n |-> Batch(inputs, b)]

\* ------------------------------------------------------------------ Init
Init ==
    /\ pc = [r \in Reqs |-> "idle"]
    /\ req = [r \in Reqs |-> NoReq]
    /\ nbatch = [r \in Reqs |-> 0]
    /\ pool = [r \in Reqs |-> "none"]
    /\ nextTask = [r \in Reqs |-> 0]
    /\ status = [r \in Reqs |-> [b \in Batches |-> "queued"]]
    /\ ncalls = [r \in Reqs |-> [b \in Batches |-> 0]]
    /\ payload = [r \in Reqs |-> [b \in Batches |-> NoPayload]]
    /\ wbatch = [r \in Reqs |-> [b \in Batches |-> NoBatch]]
    /\ chunksize = [r \in Reqs |-> 0]
    /\ number_left = [r \in Reqs |-> 0]
    /\ value = [r \in Reqs |-> [b \in Batches |-> 0]]
    /\ success = [r \in Reqs |-> TRUE]
    /\ postIn = [r \in Reqs |-> <<>>]
    /\ postCalled = [r \in Reqs |-> FALSE]
    /\ infCalls = [r \in Reqs |-> 0]
    /\ infPayload = [r \in Reqs |-> NoInfPayload]
    /\ infResp = [r \in Reqs |-> None]
    /\ resp = [r \in Reqs |-> [b \in Batches |-> None]]
    /\ result = [r \in Reqs |-> NoResult]

mapVars == <<nbatch, pool, nextTask, status, ncalls, payload, wbatch,
             chunksize, number_left, value, success, postIn, postCalled, resp>>
infVars == <<infCalls, infPayload, infResp>>

\* ------------------------------------------------------ transcribe_audio
\* lines 73-95, up to the POST that query sends
transcribe_audio(r, microphone, file_upload, task, return_timestamps) ==
    /\ pc[r] = "idle"
    /\ req' = [req EXCEPT ![r] =
                 [fn |-> "transcribe_audio", microphone |-> microphone,
                  file_upload |-> file_upload, task |-> task,
                  return_timestamps |-> return_timestamps]]
    /\ IF NoAudio(microphone, file_upload)
       THEN /\ pc' = [pc EXCEPT ![r] = "returned"]
            /\ result' = [result EXCEPT ![r] =
                            [shape |-> "str", text |-> ERROR, timestamps |-> None]]
            /\ UNCHANGED infVars
       ELSE /\ pc' = [pc EXCEPT ![r] = "query"]
            /\ infCalls' = [infCalls EXCEPT ![r] = @ + 1]
            /\ infPayload' = [infPayload EXCEPT ![r] =
                 [inputs |-> b64encode([type |-> "ndarray",
                                        src |-> SelectInput(microphone, file_upload),
                                        id |-> 0]),
                  task |-> task, return_timestamps |-> return_timestamps]]
            /\ UNCHANGED <<infResp, result>>
    /\ UNCHANGED mapVars

\* query answered: the rest of inference, then line 97
QueryReturn(r, status_code) ==
    /\ pc[r] = "query"
    /\ LET data == IF status_code = 200
                   THEN Json200(req[r].return_timestamps) ELSE JsonError
           out == inference(data, status_code, req[r].return_timestamps)
       IN /\ infResp' = [infResp EXCEPT ![r] =
                          IF status_code = 200 THEN "ok" ELSE "error"]
          /\ IF out.raised
             THEN /\ pc' = [pc EXCEPT ![r] = "raised"]
                  /\ UNCHANGED result
             ELSE /\ pc' = [pc EXCEPT ![r] = "returned"]
                  /\ result' = [result EXCEPT ![r] =
                       [shape |-> "pair",
                        text |-> WarnOutput(req[r].microphone, req[r].file_upload)
                                 \o out.text,
                        timestamps |-> out.timestamps]]
    /\ UNCHANGED <<req, infCalls, infPayload>>
    /\ UNCHANGED mapVars

\* requests.post raises: the exception leaves query, inference and the request
QueryTransportFail(r) ==
    /\ pc[r] = "query"
    /\ pc' = [pc EXCEPT ![r] = "raised"]
    /\ infResp' = [infResp EXCEPT ![r] = "transport"]
    /\ UNCHANGED <<req, infCalls, infPayload, result>>
    /\ UNCHANGED mapVars

\* ---------------------------------------------- transcribe_chunked_audio
\* the batch object forward is called with in the worker, after line 62
Forwarded(r, b) ==
    ForwardEncode(preprocess_batch(
        SelectInput(req[r].microphone, req[r].file_upload), nbatch[r])[b])

\* workers call forward on the batches lo .. hi of request r, up to the POST
\* (lines 60-65)
Send(r, lo, hi) ==
    /\ wbatch' = [wbatch EXCEPT ![r] =
                    [b \in Batches |->
                       IF lo <= b /\ b <= hi THEN Forwarded(r, b) ELSE @[b]]]
    /\ payload' = [payload EXCEPT ![r] =
                     [b \in Batches |->
                        IF lo <= b /\ b <= hi
                        THEN ForwardPayload(Forwarded(r, b), req[r].task,
                                            req[r].return_timestamps)
                        ELSE @[b]]]
    /\ ncalls' = [ncalls EXCEPT ![r] =
                    [b \in Batches |->
                       IF lo <= b /\ b <= hi THEN @[b] + 1 ELSE @[b]]]

\* lines 99-122, up to pool.map blocking on the MapResult
transcribe_chunked_audio(r, microphone, file_upload, task, return_timestamps, n) ==
    /\ pc[r] = "idle"
    /\ req' = [req EXCEPT ![r] =
                 [fn |-> "transcribe_chunked_audio", microphone |-> microphone,
                  file_upload |-> file_upload, task |-> task,
                  return_timestamps |-> return_timestamps]]
    /\ IF NoAudio(microphone, file_upload)
       THEN /\ pc' = [pc EXCEPT ![r] = "returned"]
            /\ result' = [result EXCEPT ![r] =
                            [shape |-> "str", text |-> ERROR, timestamps |-> None]]
            /\ UNCHANGED <<nbatch, pool, chunksize, number_left>>
       ELSE /\ pc' = [pc EXCEPT ![r] = "map"]
            /\ nbatch' = [nbatch EXCEPT ![r] = n]
            /\ pool' = [pool EXCEPT ![r] = "live"]
            /\ chunksize' = [chunksize EXCEPT ![r] = Chunksize(n)]
            /\ number_left' = [number_left EXCEPT ![r] = NumTasks(n)]
            /\ UNCHANGED result
    /\ UNCHANGED <<nextTask, status, ncalls, payload, wbatch, value, success,
                   postIn, postCalled, resp>>
    /\ UNCHANGED infVars

\* an idle worker takes the next task off the queue and calls forward on its
\* first batch
TakeTask(r) ==
    /\ pc[r] = "map"
    /\ CanTake(r)
    /\ LET lo == FirstOf(r, nextTask[r] + 1)
           hi == LastOf(r, nextTask[r] + 1)
       IN /\ nextTask' = [nextTask EXCEPT ![r] = @ + 1]
          /\ status' = [status EXCEPT ![r] =
                          [b \in Batches |->
                             IF lo <= b /\ b <= hi THEN "sent" ELSE @[b]]]
          /\ Send(r, lo, lo)
    /\ UNCHANGED <<pc, req, nbatch, pool, chunksize, number_left, value,
                   success, postIn, postCalled, resp, result>>
    /\ UNCHANGED infVars

\* the worker's outcome of task t when forward raises at batch j (mapstar stops
\* there), or at no batch when j = 0: the result reaches MapResult._set
FinishTask(r, t, j) ==
    LET lo == FirstOf(r, t)
        hi == LastOf(r, t)
        last == IF j = 0 THEN hi ELSE j
    IN /\ number_left' = [number_left EXCEPT ![r] = @ - 1]
       /\ status' = [status EXCEPT ![r] =
                       [b \in Batches |->
                          IF b < lo \/ b > hi THEN @[b]
                          ELSE IF b = j THEN "raised"
                          ELSE IF b <= last THEN "ok" ELSE "skipped"]]
       /\ Send(r, lo + 1, last)
       /\ IF j = 0
          THEN /\ value' = [value EXCEPT ![r] =
                              IF success[r] THEN StoreResult(@, r, t) ELSE @]
               /\ UNCHANGED success
          ELSE /\ success' = [success EXCEPT ![r] = FALSE]
               /\ value' = [value EXCEPT ![r] = [x \in Batches |-> 0]]

FailuresSoFar(r) == Cardinality({x \in Batches : resp[r][x] = "failed"})

\* the engine answers the POSTs of task t: 200 for its batches before j, and for
\* batch j the body outputs (every batch is answered 200 when j = 0); lines 57,
\* 66-67 for each batch
TaskReturn(r, t, j, outputs) ==
    /\ pc[r] = "map"
    /\ TaskRunning(r, t)
    /\ j = 0 \/ j \in TaskBatches(r, t)
    /\ (j = 0) = (outputs = Features200)
    /\ j # 0 => FailuresSoFar(r) < MaxFail
    /\ LET lo == FirstOf(r, t)
           hi == LastOf(r, t)
           stop == IF ForwardRaises(outputs) THEN j ELSE 0
       IN /\ FinishTask(r, t, stop)
          /\ resp' = [resp EXCEPT ![r] =
                        [b \in Batches |->
                           IF b < lo \/ b > hi THEN @[b]
                           ELSE IF b = j THEN "failed"
                           ELSE IF stop = 0 \/ b < stop THEN "ok" ELSE @[b]]]
    /\ UNCHANGED <<pc, req, nbatch, pool, nextTask, chunksize, postIn, postCalled,
                   result>>
    /\ UNCHANGED infVars

\* requests.post raises inside chunked_query for batch j of task t, after 200
\* for the batches before it: forward raises, the task fails
TaskTransportFail(r, t, j) ==
    /\ pc[r] = "map"
    /\ TaskRunning(r, t)
    /\ j \in TaskBatches(r, t)
    /\ FailuresSoFar(r) < MaxFail
    /\ FinishTask(r, t, j)
    /\ resp' = [resp EXCEPT ![r] =
                  [b \in Batches |->
                     IF b < FirstOf(r, t) \/ b > j THEN @[b]
                     ELSE IF b = j THEN "failed" ELSE "ok"]]
    /\ UNCHANGED <<pc, req, nbatch, pool, nextTask, chunksize, postIn, postCalled,
                   result>>
    /\ UNCHANGED infVars

\* pool.map returns the list: lines 122-126
MapReturn(r) ==
    /\ pc[r] = "map"
    /\ MapReady(r)
    /\ success[r]
    /\ LET model_outputs == [i \in 1 .. nbatch[r] |-> value[r][i]]
           post_processed == postprocess(model_outputs, req[r].return_timestamps)
       IN /\ postIn' = [postIn EXCEPT ![r] = model_outputs]
          /\ postCalled' = [postCalled EXCEPT ![r] = TRUE]
          /\ result' = [result EXCEPT ![r] =
               [shape |-> "pair",
                text |-> WarnOutput(req[r].microphone, req[r].file_upload)
                         \o post_processed.text,
                timestamps |-> post_processed.chunks]]
    /\ pc' = [pc EXCEPT ![r] = "returned"]
    /\ pool' = [pool EXCEPT ![r] = "garbage"]
    /\ UNCHANGED <<req, nbatch, nextTask, status, ncalls, payload, wbatch,
                   chunksize, number_left, value, success, resp>>
    /\ UNCHANGED infVars

\* pool.map re-raises the first exception: it leaves the request at line 122
MapRaise(r) ==
    /\ pc[r] = "map"
    /\ MapReady(r)
    /\ ~success[r]
    /\ pc' = [pc EXCEPT ![r] = "raised"]
    /\ pool' = [pool EXCEPT ![r] = "garbage"]
    /\ UNCHANGED <<req, nbatch, nextTask, status, ncalls, payload, wbatch,
                   chunksize, number_left, value, success, postIn, postCalled,
                   resp, result>>
    /\ UNCHANGED infVars

\* the Pool nothing refers to any more is finalized by the garbage collector:
\* its workers exit
CollectPool(r) ==
    /\ pool[r] = "garbage"
    /\ pool' = [pool EXCEPT ![r] = "terminated"]
    /\ UNCHANGED <<pc, req, nbatch, nextTask, status, ncalls, payload, wbatch,
                   chunksize, number_left, value, success, postIn, postCalled,
                   resp, result>>
    /\ UNCHANGED infVars

\* ------------------------------------------------------- specifications
Paths(p) == {None, p}
Tasks == {"transcribe", "translate"}
StatusCodes == {200, 500}
FeatureBodies == {Features200, JsonError}
\* the batches of the running task t at which its forward calls may stop
Stops(r, t) == {0} \cup TaskBatches(r, t)

\* the steps of the pool of request r
PoolStep(r) ==
    \/ TakeTask(r)
    \/ \E t \in Running(r) : \E j \in Stops(r, t), o \in FeatureBodies :
          TaskReturn(r, t, j, o)
    \/ \E t \in Running(r) : \E j \in TaskBatches(r, t) :
          TaskTransportFail(r, t, j)
    \/ MapReturn(r)
    \/ MapRaise(r)
    \/ CollectPool(r)

\* Spec: one request, every combination of arguments, few batches
Next ==
    \/ \E m \in Paths("mic.wav"), f \in Paths("file.wav"), t \in Tasks,
          ts \in BOOLEAN : transcribe_audio(1, m, f, t, ts)
    \/ \E s \in StatusCodes : QueryReturn(1, s)
    \/ QueryTransportFail(1)
    \/ \E m \in Paths("mic.wav"), f \in Paths("file.wav"), t \in Tasks,
          ts \in BOOLEAN, n \in 0 .. SmallBatches :
          transcribe_chunked_audio(1, m, f, t, ts, n)
    \/ PoolStep(1)

Spec == Init /\ [][Next]_vars

\* LongSpec: one chunked request of more than 4*NUM_PROC batches
LongArgs == {<<"transcribe", FALSE>>, <<"translate", TRUE>>}

LongNext ==
    \/ \E a \in LongArgs, n \in 4 * NUM_PROC + 1 .. MaxBatches :
          transcribe_chunked_audio(1, "mic.wav", None, a[1], a[2], n)
    \/ PoolStep(1)

LongSpec == Init /\ [][LongNext]_vars

\* PoolSpec: concurrent and successive chunked requests
PoolNext ==
    \E r \in Reqs :
        \/ \E n \in 0 .. PoolBatches :
              transcribe_chunked_audio(r, "mic.wav", None, "transcribe", FALSE, n)
        \/ PoolStep(r)

PoolSpec == Init /\ [][PoolNext]_vars

\* what the pool, the engine and the blocked caller do on their own
Progress(r) ==
    \/ TakeTask(r)
    \/ \E t \in Running(r) : \E j \in Stops(r, t), o \in FeatureBodies :
          TaskReturn(r, t, j, o)
    \/ \E t \in Running(r) : \E j \in TaskBatches(r, t) :
          TaskTransportFail(r, t, j)
    \/ MapReturn(r)
    \/ MapRaise(r)

\* LiveSpec: Spec, where every engine call is answered or fails, idle workers
\* take the tasks queued for them, and a map whose result is ready returns
LiveSpec ==
    /\ Spec
    /\ WF_vars(Progress(1))
    /\ WF_vars(\E s \in StatusCodes : QueryReturn(1, s) \/ QueryTransportFail(1))

\* ------------------------------------------------------------- properties
Called(r) == {b \in 1 .. nbatch[r] : ncalls[r][b] > 0}
Ended(r) == pc[r] \in {"returned", "raised"}
Chunked(r) == req[r].fn = "transcribe_chunked_audio"
BothGiven(r) == req[r].microphone # None /\ req[r].file_upload # None
NoneGiven(r) == req[r].fn # None /\ NoAudio(req[r].microphone, req[r].file_upload)
TaskOf(r, b) == ((b - 1) \div chunksize[r]) + 1

\* C1: whatever the order in which the batch calls complete, the result of
\* batch i is stored at position i of the map's result list, and the list
\* handed to postprocess holds, at every position i, the result of batch i.
C1_ResultsInBatchOrder ==
    \A r \in Reqs :
        /\ (pc[r] = "map" /\ success[r]) =>
               \A i \in 1 .. nbatch[r] : value[r][i] \in {0, i}
        /\ postCalled[r] =>
               /\ Len(postIn[r]) = nbatch[r]
               /\ \A i \in 1 .. nbatch[r] : postIn[r][i] = i

\* batch 2 completed, and was stored, while batch 1 is still outstanding
C1_Witness ==
    \E r \in Reqs :
        /\ pc[r] = "map"
        /\ nbatch[r] >= 2
        /\ status[r][1] = "sent"
        /\ value[r][2] = 2

\* C2 as stated: when a chunked request has ended, every batch of the
\* dataloader has had exactly one engine call, carrying the request's task and
\* return_timestamps.
C2_Original ==
    \A r \in Reqs :
        (Chunked(r) /\ Ended(r)) =>
            \A b \in 1 .. nbatch[r] :
                /\ ncalls[r][b] = 1
                /\ payload[r][b].task = req[r].task
                /\ payload[r][b].return_timestamps = req[r].return_timestamps

\* C2 as amended: no batch has more than one engine call, every call carries
\* the request's task and return_timestamps, and when the request has ended a
\* batch is without a call only if an earlier batch of its own pool.map task
\* failed.
C2_AtMostOnceAndSkippedOnlyAfterFailure ==
    \A r \in Reqs :
        \A b \in 1 .. nbatch[r] :
            /\ ncalls[r][b] <= 1
            /\ ncalls[r][b] = 1 =>
                   /\ payload[r][b].task = req[r].task
                   /\ payload[r][b].return_timestamps = req[r].return_timestamps
            /\ (Ended(r) /\ ncalls[r][b] = 0) =>
                   \E a \in FirstOf(r, TaskOf(r, b)) .. b - 1 :
                       resp[r][a] = "failed"

\* a request ended with one batch called and failed, and the next never sent
C2_Witness ==
    \E r \in Reqs :
        /\ Ended(r)
        /\ \E b \in 1 .. nbatch[r] - 1 :
               /\ ncalls[r][b] = 1
               /\ resp[r][b] = "failed"
               /\ ncalls[r][b + 1] = 0

\* C3: postprocess is not called while a batch of the request is still queued
\* or still held by a worker: every batch has been answered when it starts.
C3_StitchAfterAllReturned ==
    \A r \in Reqs :
        postCalled[r] =>
            \A b \in 1 .. nbatch[r] :
                status[r][b] \notin {"queued", "sent"} /\ resp[r][b] # None

C3_Witness ==
    \E r \in Reqs : postCalled[r] /\ nbatch[r] >= 2

\* C4: once the engine call of any batch has failed, postprocess is never
\* called and the request returns nothing: it is still in the map or raised.
C4_FailFast ==
    \A r \in Reqs :
        (\E b \in 1 .. nbatch[r] : resp[r][b] = "failed") =>
            /\ ~postCalled[r]
            /\ pc[r] \in {"map", "raised"}
            /\ result[r] = NoResult

\* the request raised although another of its batches was answered 200
C4_Witness ==
    \E r \in Reqs :
        /\ pc[r] = "raised"
        /\ \E b \in 1 .. nbatch[r] : resp[r][b] = "failed"
        /\ \E b \in 1 .. nbatch[r] : resp[r][b] = "ok"

\* workers of the pools that have not been finalized
LiveWorkers ==
    NUM_PROC * Cardinality({r \in Reqs : pool[r] \in {"live", "garbage"}})

\* C5 as stated: the live workers never number more than NUM_PROC.
C5_Original == LiveWorkers <= NUM_PROC

\* C6 as stated: when the engine answers inference with a non-success status,
\* the request returns the engine's detail as its text.
C6_Original ==
    \A r \in Reqs :
        infResp[r] = "error" =>
            /\ pc[r] = "returned"
            /\ result[r].text =
                   WarnOutput(req[r].microphone, req[r].file_upload) \o <<"detail">>

\* C7 as stated: whatever a request returns is a pair, whose second component
\* is None when return_timestamps is false.
C7_Original ==
    \A r \in Reqs :
        pc[r] = "returned" =>
            /\ result[r].shape = "pair"
            /\ ~req[r].return_timestamps => result[r].timestamps = None

\* C8: with both sources given the request is not rejected, what is sent to
\* the engine comes from the microphone, and the text returned on success is
\* the warning followed by the transcript; with no source the request returns
\* the error string and no engine call is made.
C8_InputResolution ==
    \A r \in Reqs :
        /\ BothGiven(r) =>
               /\ pc[r] \in {"query", "map", "returned", "raised"}
               /\ result[r].text # ERROR
               /\ infCalls[r] > 0 =>
                      infPayload[r].inputs.src = req[r].microphone
               /\ \A b \in Called(r) :
                      payload[r][b].input_features.src = req[r].microphone
               /\ (pc[r] = "returned" /\ Chunked(r)) =>
                      result[r].text = WARNING \o
                          postprocess(postIn[r], req[r].return_timestamps).text
               /\ (pc[r] = "returned" /\ infResp[r] = "ok") =>
                      result[r].text = WARNING \o <<"text">>
               /\ (Chunked(r) /\ pc[r] # "idle") => pool[r] # "none"
        /\ NoneGiven(r) =>
               /\ pc[r] = "returned"
               /\ result[r].text = ERROR
               /\ infCalls[r] = 0
               /\ Called(r) = {}
               /\ pool[r] = "none"

\* a chunked request with both sources returned the warning and the transcript
C8_Witness ==
    \E r \in Reqs :
        /\ BothGiven(r)
        /\ Chunked(r)
        /\ pc[r] = "returned"
        /\ Called(r) # {}
        /\ result[r].text = WARNING \o <<"transcript">>

\* C9 as stated: after forward was called on a batch, the batch it was called
\* with is as the dataloader produced it.
C9_Original ==
    \A r \in Reqs :
        \A b \in Called(r) :
            wbatch[r][b] =
                preprocess_batch(
                    SelectInput(req[r].microphone, req[r].file_upload),
                    nbatch[r])[b]

\* C10: a chunked request that is in pool.map eventually returns or raises.
C10_EventuallyEnds ==
    \A r \in {1} : (pc[r] = "map") ~> Ended(r)

\* a request of several batches left pool.map by raising, every batch sent
C10_Witness ==
    \E r \in Reqs :
        /\ pc[r] = "raised"
        /\ nbatch[r] >= 2
        /\ \A b \in 1 .. nbatch[r] : ncalls[r][b] = 1

====
